---- MODULE Spec2Model ----
(***************************************************************************)
(* prometheus_render.py: parse a range string, issue one or two HTTP range *)
(* queries, plot the returned series (and optional vertical markers) and   *)
(* write a PNG.                                                            *)
(*                                                                         *)
(* Text is modelled as a sequence of characters (one-character strings),   *)
(* so that matching, int(), str() and string comparison are computed and   *)
(* not assumed.  An optional value (None or a value v) is the sequence     *)
(* <<>> or <<v>>.                                                          *)
(***************************************************************************)
EXTENDS Integers, Sequences, FiniteSets, TLC

VARIABLES
    pc,             \* position of main(): which statement runs next
    args,           \* argparse namespace (line 110)
    range_seconds,  \* line 112
    start,          \* line 114
    end,            \* line 113
    step,           \* line 115
    inflight,       \* HTTP requests sent and not yet answered
    sent,           \* every HTTP GET issued so far, in order
    resp,           \* response of the primary query (line 119)
    results,        \* data["data"]["result"] (line 142)
    fig,            \* the figure: "none", "open" or "closed"
    plotted,        \* ax.plot calls so far (line 164)
    vresp,          \* response of the marker query (line 169)
    vlines,         \* ax.axvline calls so far (line 194)
    date_fmt,       \* line 198
    title_drawn,    \* line 203
    legend_drawn,   \* line 206
    stderr,         \* diagnostics printed so far
    savefig_calls,  \* number of fig.savefig attempts (line 216)
    closes,         \* number of plt.close(fig) calls (line 221)
    written,        \* the image file was written
    stdout,         \* what was printed to standard output
    exit_code,      \* process exit status, -1 while running
    now,            \* the wall clock, as time.time() reads it
    pr_in, pr_out,  \* parse_range called on its own: argument and outcome
    ml_in, ml_out   \* metric_label called on its own: argument and result

vars == <<pc, args, range_seconds, start, end, step, inflight, sent, resp,
          results, fig, plotted, vresp, vlines, date_fmt, title_drawn,
          legend_drawn, stderr, savefig_calls, closes, written, stdout,
          exit_code, now, pr_in, pr_out, ml_in, ml_out>>

None == <<>>
Some(v) == <<v>>

\* Python truthiness of an optional text: None and the empty text are falsy.
Truthy(opt) == opt /= None /\ opt[1] /= <<>>

----------------------------------------------------------------------------
(* Characters *)

\* The characters of class \d used here: ASCII digits and one non-ASCII
\* decimal digit (U+0663 ARABIC-INDIC DIGIT THREE), which a str pattern's \d
\* matches and int() converts.
DigitChar == <<"1", "2", "3", "4", "5", "6", "7", "8", "9">>

DigitValue(c) ==
    IF c = "0" THEN 0
    ELSE IF c = "U+0663" THEN 3
    ELSE CHOOSE n \in 1..9 : DigitChar[n] = c

IsDigit(c) == c = "0" \/ c = "U+0663" \/ \E n \in 1..9 : DigitChar[n] = c

\* Code points of the characters that occur in label keys and values.
ord == ("_" :> 95) @@ ("1" :> 49) @@ ("2" :> 50) @@ ("a" :> 97) @@ ("b" :> 98)
       @@ ("c" :> 99) @@ ("d" :> 100) @@ ("e" :> 101) @@ ("i" :> 105) @@ ("j" :> 106)
       @@ ("m" :> 109) @@ ("n" :> 110) @@ ("o" :> 111) @@ ("s" :> 115)
       @@ ("t" :> 116) @@ ("x" :> 120)

----------------------------------------------------------------------------
(* parse_range, lines 18-29 *)

UnitChars == {"s", "m", "h", "d", "w"}

multipliers == [s |-> 1, m |-> 60, h |-> 3600, d |-> 86400, w |-> 604800]

\* Greedy \d+ from position i: the number of consecutive \d characters.
RECURSIVE DigitRun(_, _)
DigitRun(str_, i) ==
    IF i <= Len(str_) /\ IsDigit(str_[i]) THEN 1 + DigitRun(str_, i + 1) ELSE 0

\* re.match: the pattern matches a prefix of the string (not what the code calls).
PrefixMatch(range_str) ==
    LET k == DigitRun(range_str, 1)
    IN  k >= 1 /\ Len(range_str) >= k + 1 /\ range_str[k + 1] \in UnitChars

\* re.fullmatch(r"(\d+)([smhdw])", range_str): the whole string must match.
\* [smhdw] holds no \d character, so no backtracking of \d+ can help.
fullmatch(range_str) ==
    LET k == DigitRun(range_str, 1)
    IN  k >= 1 /\ Len(range_str) = k + 1 /\ range_str[k + 1] \in UnitChars

\* int() of a string of decimal digits.
RECURSIVE int(_)
int(ds) ==
    IF ds = <<>> THEN 0
    ELSE 10 * int(SubSeq(ds, 1, Len(ds) - 1)) + DigitValue(ds[Len(ds)])

\* Outcome of a call: it either returns a value or exits the process.
Returned(v) == [returned |-> TRUE, value |-> v, status |-> 0, msg |-> ""]
Exited(code, m) == [returned |-> FALSE, value |-> 0, status |-> code, msg |-> m]

NotCalled == Exited(-1, "")

parse_range(range_str) ==
    IF ~fullmatch(range_str)
    THEN Exited(1, "Invalid range format")
    ELSE LET k == DigitRun(range_str, 1)
             value == int(SubSeq(range_str, 1, k))
             unit == range_str[k + 1]
         IN  Returned(value * multipliers[unit])

----------------------------------------------------------------------------
(* metric_label, lines 32-36 *)

\* A metric dict is the sequence of its (key, value) items in insertion
\* order; keys are distinct.
exclude == {<<"_", "_", "n", "a", "m", "e", "_", "_">>, <<"j", "o", "b">>,
            <<"i", "n", "s", "t", "a", "n", "c", "e">>}

\* Python's < on str: by code point, a proper prefix is smaller.
RECURSIVE StrLess(_, _)
StrLess(a, b) ==
    IF b = <<>> THEN FALSE
    ELSE IF a = <<>> THEN TRUE
    ELSE IF ord[a[1]] /= ord[b[1]] THEN ord[a[1]] < ord[b[1]]
    ELSE StrLess(Tail(a), Tail(b))

\* The order sorted() would use if it compared the values of the items.
ValueLess(x, y) == StrLess(x[2], y[2]) \/ (x[2] = y[2] /\ StrLess(x[1], y[1]))

\* Python's < on the (key, value) tuples of metric.items().
ItemLess(x, y) == StrLess(x[1], y[1]) \/ (x[1] = y[1] /\ StrLess(x[2], y[2]))

\* Stable insertion: x goes before the first element greater than x.
RECURSIVE Insert(_, _)
Insert(x, s) ==
    IF s = <<>> THEN <<x>>
    ELSE IF ItemLess(x, s[1]) THEN <<x>> \o s
    ELSE <<s[1]>> \o Insert(x, Tail(s))

RECURSIVE sorted(_)
sorted(items) ==
    IF items = <<>> THEN <<>>
    ELSE Insert(items[Len(items)], sorted(SubSeq(items, 1, Len(items) - 1)))

\* sep.join(parts)
RECURSIVE join(_, _)
join(sep, parts) ==
    IF parts = <<>> THEN <<>>
    ELSE IF Len(parts) = 1 THEN parts[1]
    ELSE parts[1] \o sep \o join(sep, Tail(parts))

\* metric.get(key, default)
get(metric, key, default) ==
    IF \E i \in 1..Len(metric) : metric[i][1] = key
    THEN metric[CHOOSE i \in 1..Len(metric) : metric[i][1] = key][2]
    ELSE default

\* [f"{k}={v}" for k, v in items if k not in exclude]
RECURSIVE Parts(_)
Parts(items) ==
    IF items = <<>> THEN <<>>
    ELSE (IF items[1][1] \in exclude THEN <<>>
          ELSE <<items[1][1] \o <<"=">> \o items[1][2]>>) \o Parts(Tail(items))

metric_label(metric) ==
    LET parts == Parts(sorted(metric))
    IN  IF parts /= <<>> THEN join(<<",", " ">>, parts)
        ELSE get(metric, <<"_", "_", "n", "a", "m", "e", "_", "_">>,
                 <<"v", "a", "l", "u", "e">>)

----------------------------------------------------------------------------
(* Inputs of a run of main() *)

MaxSeries == 2          \* longest primary result list explored
MaxMarkerSeries == 2    \* longest marker result list explored

\* A scaled stand-in for the largest timestamp datetime.fromtimestamp accepts
\* (year 9999); above it the call raises ValueError.
MaxDatetimeTs == 2000000000

Nows == {1700000000, 1700003600}

NAME == <<"_", "_", "n", "a", "m", "e", "_", "_">>
JOB == <<"j", "o", "b">>
MODE == <<"m", "o", "d", "e">>
INSTANCE_ == <<"i", "n", "s", "t", "a", "n", "c", "e">>
CPU == <<"c", "p", "u">>
NODE == <<"n", "o", "d", "e">>

\* One (key, value) item of a metric dict.
Item(k, v) == <<k, v>>

RangeStrs == {<<"1", "d">>, <<"8", "6", "4", "0", "1", "s">>, <<"0", "s">>,
              <<"2", "4">>}
StepArgs == {None, Some(<<>>), Some(<<"1", "5">>)}
TitleArgs == {<<>>, <<"C", "P", "U">>}
VlinesArgs == {None, Some(<<>>), Some(<<"d", "e", "p", "l", "o", "y">>)}
QueryArgs == {<<"u", "p">>}
StyleArgs == {"dark_background", "no_such_style"}

\* The style names plt.style.use accepts; any other raises OSError.
StyleLibrary == {"default", "dark_background", "ggplot"}

Namespaces ==
    [query : QueryArgs, range_str : RangeStrs, step : StepArgs,
     title : TitleArgs, vlines_query : VlinesArgs, style : StyleArgs]

NoArgs == [query |-> <<>>, range_str |-> <<>>, step |-> None, title |-> <<>>,
           vlines_query |-> None, style |-> ""]

\* One entry of a values list.  shape tells what v[0] is: "number", "text"
\* (a string float() rejects), "null", or "empty" (the entry is []).  val is
\* v[1], the sample as a string.
Pt(shape, ts, val) == [shape |-> shape, ts |-> ts, val |-> val]

FloatLiterals == {"0.5", "2"}

Series(metric, values) == [metric |-> metric, values |-> values]

PrimarySeriesPool ==
    { Series(Some(<<Item(NAME, CPU), Item(MODE, <<"i", "d", "l", "e">>),
                    Item(JOB, NODE)>>),
             Some(<<Pt("number", 1699990000, "0.5"), Pt("number", 1699990300, "2")>>)),
      Series(Some(<<Item(JOB, NODE), Item(NAME, CPU)>>),
             Some(<<Pt("number", 1699990000, "2")>>)),
      Series(Some(<<Item(NAME, CPU)>>), None),
      Series(Some(<<>>), Some(<<Pt("number", 1699990000, "abc")>>)) }

MarkerSeriesPool ==
    { Series(Some(<<>>), Some(<<Pt("number", 1699995000, "1"),
                                Pt("number", 1699991000, "1")>>)),
      Series(Some(<<>>), Some(<<Pt("number", 1699992000, "1")>>)),
      Series(Some(<<>>), Some(<<>>)),
      Series(Some(<<>>), Some(<<Pt("number", MaxDatetimeTs + 1, "1")>>)),
      Series(Some(<<>>), None),
      Series(Some(<<>>), Some(<<Pt("text", 0, "1")>>)),
      Series(Some(<<>>), Some(<<Pt("empty", 0, "")>>)) }

SeqsUpTo(S, n) == UNION {[1..k -> S] : k \in 0..n}

\* A decoded JSON object body: {status?, error?, data?: {result?}}.
Obj(status, error, data) ==
    [json |-> "object", status |-> status, error |-> error, data |-> data]
NoBody == [json |-> "invalid", status |-> None, error |-> None, data |-> None]

Bodies(pool, n) ==
    { NoBody, [NoBody EXCEPT !.json = "array"],
      Obj(Some("error"), Some("bad query"), None),
      Obj(Some("error"), None, None),
      Obj(None, None, None),
      Obj(Some("success"), None, None),
      Obj(Some("success"), None, Some([result |-> None])) }
    \cup { Obj(Some("success"), None, Some([result |-> Some(r)])) :
             r \in SeqsUpTo(pool, n) }

Response(transport, body) == [transport |-> transport, body |-> body]
NoResponse == Response("none", NoBody)

Responses(pool, n) ==
    { Response(t, NoBody) : t \in {"ConnectionError", "Timeout", "HTTPError"} }
    \cup { Response("ok", b) : b \in Bodies(pool, n) }

PrimaryResponses == Responses(PrimarySeriesPool, MaxSeries)
MarkerResponses == Responses(MarkerSeriesPool, MaxMarkerSeries)

----------------------------------------------------------------------------
(* Helpers of main() *)

max(a, b) == IF a >= b THEN a ELSE b

\* str() of a non-negative int.
RECURSIVE str(_)
str(n) ==
    LET d == IF n % 10 = 0 THEN "0" ELSE DigitChar[n % 10]
    IN  IF n < 10 THEN <<d>> ELSE str(n \div 10) \o <<d>>

\* Line 115 without the floor of 1.
StepNoFloor(args_step, rs) ==
    IF Truthy(args_step) THEN args_step[1] ELSE str(rs \div 300)

\* Line 115: args.step or str(max(1, range_seconds // 300))
StepFor(args_step, rs) ==
    IF Truthy(args_step) THEN args_step[1] ELSE str(max(1, rs \div 300))

Request(site, query, s, e, st) ==
    [site |-> site, query |-> query, start |-> s, end |-> e, step |-> st]

Diag(tag, detail) == [tag |-> tag, detail |-> detail]

\* requests.get(...) + raise_for_status(): the exception raised, "" if none.
raise_for_status(r) == IF r.transport = "ok" THEN "" ELSE r.transport

\* The first exception in a sequence of outcomes, "" if none.
RECURSIVE FirstExc(_)
FirstExc(excs) ==
    IF excs = <<>> THEN ""
    ELSE IF excs[1] /= "" THEN excs[1] ELSE FirstExc(Tail(excs))

\* float(v[0]): the exception it raises for an entry of this shape.
FloatTsExc(p) ==
    CASE p.shape = "empty" -> "IndexError"
      [] p.shape = "text" -> "ValueError"
      [] p.shape = "null" -> "TypeError"
      [] OTHER -> ""

\* datetime.fromtimestamp(ts)
FromTimestampExc(ts) == IF ts > MaxDatetimeTs THEN "ValueError" ELSE ""

\* float(v[1])
FloatValExc(p) == IF p.val \in FloatLiterals THEN "" ELSE "ValueError"

\* Lines 159-164 for one series: the exception raised, "" if it was plotted.
PlotExc(series) ==
    IF series.values = None THEN "KeyError"
    ELSE LET vs == series.values[1]
             tsx == FirstExc([i \in 1..Len(vs) |->
                       IF FloatTsExc(vs[i]) /= "" THEN FloatTsExc(vs[i])
                       ELSE FromTimestampExc(vs[i].ts)])
             vx == FirstExc([i \in 1..Len(vs) |-> FloatValExc(vs[i])])
         IN  IF tsx /= "" THEN tsx
             ELSE IF vx /= "" THEN vx
             ELSE IF series.metric = None THEN "KeyError"
             ELSE ""

Line(series) ==
    [label |-> metric_label(series.metric[1]),
     xs |-> [i \in 1..Len(series.values[1]) |-> series.values[1][i].ts],
     ys |-> [i \in 1..Len(series.values[1]) |-> series.values[1][i].val]]

\* Lines 158-164: the loop plots series in order and stops at the first
\* exception.
RECURSIVE PlotLoop(_)
PlotLoop(rs) ==
    IF rs = <<>> THEN [exc |-> "", lines |-> <<>>]
    ELSE IF PlotExc(rs[1]) /= "" THEN [exc |-> PlotExc(rs[1]), lines |-> <<>>]
    ELSE LET rest == PlotLoop(Tail(rs))
         IN  [exc |-> rest.exc, lines |-> <<Line(rs[1])>> \o rest.lines]

\* Lines 185-189 for one marker series: exception, or the event's timestamp.
EventExc(vseries) ==
    IF vseries.values = None THEN "KeyError"
    ELSE IF vseries.values[1] = <<>> THEN ""
    ELSE IF FloatTsExc(vseries.values[1][1]) /= ""
         THEN FloatTsExc(vseries.values[1][1])
    ELSE IF vseries.metric = None THEN "KeyError"
    ELSE ""

\* Line 187: float(vseries["values"][0][0])
EventTs(vseries) == vseries.values[1][1].ts

\* Lines 183-189
RECURSIVE CollectEvents(_)
CollectEvents(rs) ==
    IF rs = <<>> THEN [exc |-> "", events |-> <<>>]
    ELSE IF EventExc(rs[1]) /= "" THEN [exc |-> EventExc(rs[1]), events |-> <<>>]
    ELSE LET rest == CollectEvents(Tail(rs))
         IN  [exc |-> rest.exc,
              events |-> (IF rs[1].values[1] = <<>> THEN <<>>
                          ELSE <<EventTs(rs[1])>>) \o rest.events]

RECURSIVE InsertTs(_, _)
InsertTs(x, s) ==
    IF s = <<>> THEN <<x>>
    ELSE IF x < s[1] THEN <<x>> \o s
    ELSE <<s[1]>> \o InsertTs(x, Tail(s))

\* Line 190 left out.
Unsorted(events) == events

\* Line 190: events.sort(key=lambda e: e[0]), a stable ascending sort.
RECURSIVE SortEvents(_)
SortEvents(events) ==
    IF events = <<>> THEN <<>>
    ELSE InsertTs(events[Len(events)],
                  SortEvents(SubSeq(events, 1, Len(events) - 1)))

\* Lines 192-194: lines are drawn in order until fromtimestamp raises.
RECURSIVE DrawLines(_)
DrawLines(events) ==
    IF events = <<>> THEN [exc |-> "", drawn |-> <<>>]
    ELSE IF FromTimestampExc(events[1]) /= ""
         THEN [exc |-> FromTimestampExc(events[1]), drawn |-> <<>>]
    ELSE LET rest == DrawLines(Tail(events))
         IN  [exc |-> rest.exc, drawn |-> <<events[1]>> \o rest.drawn]

\* Lines 169-194, the body of the try block, given the response: the
\* exception that leaves it ("" if none) and the vertical lines drawn.
MarkerBlock(vr) ==
    IF raise_for_status(vr) /= ""
    THEN [exc |-> raise_for_status(vr), drawn |-> <<>>]
    ELSE IF vr.body.json = "invalid" THEN [exc |-> "JSONDecodeError", drawn |-> <<>>]
    ELSE IF vr.body.json = "array" THEN [exc |-> "AttributeError", drawn |-> <<>>]
    ELSE IF vr.body.status /= Some("success") THEN [exc |-> "", drawn |-> <<>>]
    ELSE IF vr.body.data = None \/ vr.body.data[1].result = None
         THEN [exc |-> "KeyError", drawn |-> <<>>]
    ELSE LET c == CollectEvents(vr.body.data[1].result[1])
         IN  IF c.exc /= "" THEN [exc |-> c.exc, drawn |-> <<>>]
             ELSE DrawLines(SortEvents(c.events))

\* Line 195: except (requests.RequestException, KeyError, ValueError).
\* JSONDecodeError is a ValueError.
CaughtByVlines == {"ConnectionError", "Timeout", "HTTPError", "JSONDecodeError",
                   "KeyError", "ValueError"}

\* Line 143 without the test.
NeverEmpty(rs) == FALSE

\* Line 143: not results
NoData(rs) == rs = <<>>

\* Line 137 without the lookup.
AlwaysUnknown(data) == "unknown"

\* Line 137: data.get('error', 'unknown')
ErrorField(data) == IF data.error = None THEN "unknown" ELSE data.error[1]

\* The exit status if the except clause of line 217 did not call sys.exit.
SwallowedStatus(ok) == 0

\* Lines 216-219 and the return of main: the exit status after savefig.
FinalStatus(ok) == IF ok THEN 0 ELSE 1

\* Line 198, with < in place of <=.
DateFmtStrict(rs) == IF rs < 86400 THEN "%H:%M" ELSE "%m-%d"

\* Line 198
DateFmt(rs) == IF rs <= 86400 THEN "%H:%M" ELSE "%m-%d"

\* Line 205
Legend(rs) == Len(rs) > 1

----------------------------------------------------------------------------
(* main(), lines 39-221 *)

MainInit ==
    /\ pc = "parse_args"
    /\ args = NoArgs
    /\ range_seconds = 0
    /\ start = 0
    /\ end = 0
    /\ step = <<>>
    /\ inflight = {}
    /\ sent = <<>>
    /\ resp = NoResponse
    /\ results = <<>>
    /\ fig = "none"
    /\ plotted = <<>>
    /\ vresp = NoResponse
    /\ vlines = <<>>
    /\ date_fmt = ""
    /\ title_drawn = FALSE
    /\ legend_drawn = FALSE
    /\ stderr = <<>>
    /\ savefig_calls = 0
    /\ closes = 0
    /\ written = FALSE
    /\ stdout = <<>>
    /\ exit_code = -1
    /\ now \in Nows

PureIdle ==
    /\ pr_in = <<>>
    /\ pr_out = NotCalled
    /\ ml_in = <<>>
    /\ ml_out = <<>>

Init == MainInit /\ PureIdle

pureVars == <<pr_in, pr_out, ml_in, ml_out>>
queryVars == <<range_seconds, start, end, step>>
netVars == <<inflight, sent>>
chartVars == <<fig, plotted, vlines, date_fmt, title_drawn, legend_drawn>>
fileVars == <<savefig_calls, closes, written>>
envVars == <<stdout, now>>

\* sys.exit(code) after printing a diagnostic, or an uncaught exception
\* (Python prints the traceback and exits with status 1).
Exit(code, diag) ==
    /\ pc' = "exited"
    /\ exit_code' = code
    /\ stderr' = stderr \o diag

\* Line 110, parse_args() exiting by itself: --version (and --help) print
\* and exit 0; a usage error exits 2.
ArgparseExit ==
    /\ pc = "parse_args"
    /\ \E how \in {"version", "help", "usage"} :
          IF how = "usage"
          THEN Exit(2, <<Diag("usage", "error")>>) /\ UNCHANGED stdout
          ELSE Exit(0, <<>>) /\ stdout' = <<how>>
    /\ UNCHANGED <<args, queryVars, netVars, resp, results, chartVars, vresp,
                   fileVars, pureVars, now>>

\* Line 110, parse_args() returning the namespace.
ParseArgs ==
    /\ pc = "parse_args"
    /\ \E a \in Namespaces : args' = a
    /\ pc' = "parse_range"
    /\ UNCHANGED <<queryVars, netVars, resp, results, chartVars, vresp, stderr,
                   fileVars, exit_code, pureVars, envVars>>

\* Lines 112-115
ComputeWindow ==
    /\ pc = "parse_range"
    /\ LET r == parse_range(args.range_str)
       IN  IF ~r.returned
           THEN /\ Exit(r.status, <<Diag(r.msg, args.range_str)>>)
                /\ UNCHANGED queryVars
           ELSE /\ range_seconds' = r.value
                /\ end' = now
                /\ start' = now - r.value
                /\ step' = StepFor(args.step, r.value)
                /\ pc' = "primary_get"
                /\ UNCHANGED <<stderr, exit_code>>
    /\ UNCHANGED <<args, netVars, resp, results, chartVars, vresp, fileVars,
                   pureVars, envVars>>

\* Line 119: the GET of the primary query is sent; the call blocks.
PrimarySend ==
    /\ pc = "primary_get"
    /\ LET rq == Request("primary", args.query, start, end, step)
       IN  /\ sent' = Append(sent, rq)
           /\ inflight' = inflight \cup {rq}
    /\ pc' = "primary_wait"
    /\ UNCHANGED <<args, queryVars, resp, results, chartVars, vresp, stderr,
                   fileVars, exit_code, pureVars, envVars>>

\* Lines 119-132: the call returns or raises; raise_for_status().
PrimaryReceive ==
    /\ pc = "primary_wait"
    /\ \E r \in PrimaryResponses :
          /\ resp' = r
          /\ IF raise_for_status(r) /= ""
             THEN Exit(1, <<Diag("Error querying Prometheus", raise_for_status(r))>>)
             ELSE /\ pc' = "decode"
                  /\ UNCHANGED <<stderr, exit_code>>
    /\ inflight' = {}
    /\ UNCHANGED <<args, queryVars, sent, results, chartVars, vresp, fileVars,
                   pureVars, envVars>>

\* Lines 134-145
DecodePrimary ==
    /\ pc = "decode"
    /\ LET data == resp.body
       IN  IF data.json = "invalid"
           THEN Exit(1, <<Diag("Traceback", "JSONDecodeError")>>) /\ UNCHANGED results
           ELSE IF data.json = "array"
           THEN Exit(1, <<Diag("Traceback", "AttributeError")>>) /\ UNCHANGED results
           ELSE IF data.status /= Some("success")
           THEN /\ Exit(1, <<Diag("Prometheus error", ErrorField(data))>>)
                /\ UNCHANGED results
           ELSE IF data.data = None \/ data.data[1].result = None
           THEN Exit(1, <<Diag("Traceback", "KeyError")>>) /\ UNCHANGED results
           ELSE /\ results' = data.data[1].result[1]
                /\ IF NoData(data.data[1].result[1])
                   THEN Exit(1, <<Diag("No data returned for query", args.query)>>)
                   ELSE pc' = "render" /\ UNCHANGED <<stderr, exit_code>>
    /\ UNCHANGED <<args, queryVars, netVars, resp, chartVars, vresp, fileVars,
                   pureVars, envVars>>

\* Lines 148-156: an unknown style is a warning; plt.subplots creates the
\* figure.
CreateFigure ==
    /\ pc = "render"
    /\ stderr' = IF args.style \in StyleLibrary THEN stderr
                 ELSE Append(stderr, Diag("Warning: unknown style", args.style))
    /\ fig' = "open"
    /\ pc' = "plot"
    /\ UNCHANGED <<args, queryVars, netVars, resp, results, plotted, vresp,
                   vlines, date_fmt, title_drawn, legend_drawn, fileVars,
                   exit_code, pureVars, envVars>>

\* Lines 158-164
PlotSeries ==
    /\ pc = "plot"
    /\ LET p == PlotLoop(results)
       IN  /\ plotted' = p.lines
           /\ IF p.exc /= ""
              THEN Exit(1, <<Diag("Traceback", p.exc)>>)
              ELSE pc' = "vlines" /\ UNCHANGED <<stderr, exit_code>>
    /\ UNCHANGED <<args, queryVars, netVars, resp, results, fig, vresp, vlines,
                   date_fmt, title_drawn, legend_drawn, fileVars, pureVars, envVars>>

\* Line 167, condition false: no marker query.
SkipVlines ==
    /\ pc = "vlines"
    /\ ~Truthy(args.vlines_query)
    /\ pc' = "format"
    /\ UNCHANGED <<args, queryVars, netVars, resp, results, chartVars, vresp,
                   stderr, fileVars, exit_code, pureVars, envVars>>

\* Lines 167-169: the GET of the marker query is sent; the call blocks.
MarkerSend ==
    /\ pc = "vlines"
    /\ Truthy(args.vlines_query)
    /\ LET rq == Request("marker", args.vlines_query[1], start, end, step)
       IN  /\ sent' = Append(sent, rq)
           /\ inflight' = inflight \cup {rq}
    /\ pc' = "marker_wait"
    /\ UNCHANGED <<args, queryVars, resp, results, chartVars, vresp, stderr,
                   fileVars, exit_code, pureVars, envVars>>

\* Lines 169-196: the call returns or raises, and the rest of the try block.
MarkerReceive ==
    /\ pc = "marker_wait"
    /\ \E vr \in MarkerResponses :
          LET m == MarkerBlock(vr)
          IN  /\ vresp' = vr
              /\ vlines' = m.drawn
              /\ IF m.exc = ""
                 THEN pc' = "format" /\ UNCHANGED <<stderr, exit_code>>
                 ELSE IF m.exc \in CaughtByVlines
                 THEN /\ stderr' = Append(stderr,
                            Diag("Warning: could not fetch vlines query", m.exc))
                      /\ pc' = "format"
                      /\ UNCHANGED exit_code
                 ELSE Exit(1, <<Diag("Traceback", m.exc)>>)
    /\ inflight' = {}
    /\ UNCHANGED <<args, queryVars, sent, resp, results, fig, plotted, date_fmt,
                   title_drawn, legend_drawn, fileVars, pureVars, envVars>>

\* Lines 198-213
Decorate ==
    /\ pc = "format"
    /\ date_fmt' = DateFmt(range_seconds)
    /\ title_drawn' = (args.title /= <<>>)
    /\ legend_drawn' = Legend(results)
    /\ pc' = "save"
    /\ UNCHANGED <<args, queryVars, netVars, resp, results, fig, plotted, vresp,
                   vlines, stderr, fileVars, exit_code, pureVars, envVars>>

\* Lines 215-219: fig.savefig succeeds or raises.
SaveFig ==
    /\ pc = "save"
    /\ savefig_calls' = savefig_calls + 1
    /\ \E ok \in BOOLEAN :
          /\ written' = ok
          /\ stderr' = IF ok THEN stderr
                       ELSE Append(stderr, Diag("Error writing PNG", "OSError"))
    /\ pc' = "finally"
    /\ UNCHANGED <<args, queryVars, netVars, resp, results, chartVars, vresp,
                   closes, exit_code, pureVars, envVars>>

\* Lines 219-221: the finally clause closes the figure; then sys.exit(1)
\* takes effect, or main returns and the process exits 0.
CloseFig ==
    /\ pc = "finally"
    /\ fig' = "closed"
    /\ closes' = closes + 1
    /\ pc' = "exited"
    /\ exit_code' = FinalStatus(written)
    /\ UNCHANGED <<args, queryVars, netVars, resp, results, plotted, vresp,
                   vlines, date_fmt, title_drawn, legend_drawn, stderr,
                   savefig_calls, written, pureVars, envVars>>

Next ==
    \/ ArgparseExit
    \/ ParseArgs
    \/ ComputeWindow
    \/ PrimarySend
    \/ PrimaryReceive
    \/ DecodePrimary
    \/ CreateFigure
    \/ PlotSeries
    \/ SkipVlines
    \/ MarkerSend
    \/ MarkerReceive
    \/ Decorate
    \/ SaveFig
    \/ CloseFig

Spec == Init /\ [][Next]_vars

----------------------------------------------------------------------------
(* parse_range and metric_label called on their own *)

MaxRangeLen == 3    \* longest range string explored exhaustively
MaxLabels == 3      \* most labels in a metric explored exhaustively

\* "LF" stands for the newline character.
RangeAlphabet == {"0", "1", "7", "U+0663", "s", "m", "h", "d", "w", ".", "-",
                  "a", " ", "LF"}

RangeExamples == {<<"2", "4", "h">>, <<"7", "d">>, <<"3", "0", "m">>,
                  <<"a", "b", "c">>, <<"2", "4">>, <<"1", ".", "5", "h">>,
                  <<"-", "5", "h">>}

RangeInputs == SeqsUpTo(RangeAlphabet, MaxRangeLen) \cup RangeExamples

InitRange ==
    /\ MainInit
    /\ pr_in \in RangeInputs
    /\ pr_out = NotCalled
    /\ ml_in = <<>>
    /\ ml_out = <<>>

CallParseRange ==
    /\ pr_out = NotCalled
    /\ pr_out' = parse_range(pr_in)
    /\ UNCHANGED <<pc, args, queryVars, netVars, resp, results, chartVars,
                   vresp, stderr, fileVars, exit_code, envVars, pr_in, ml_in,
                   ml_out>>

NextRange == CallParseRange

SpecRange == InitRange /\ [][NextRange]_vars

LabelKeys == {NAME, JOB, INSTANCE_, <<"a">>, <<"a", "b">>, <<"b">>}
LabelValues == {<<"1">>, <<"2">>}

DistinctKeys(m) == \A i, j \in 1..Len(m) : i /= j => m[i][1] /= m[j][1]

LabelExamples ==
    { <<Item(NAME, CPU), Item(JOB, NODE), Item(INSTANCE_, <<"a">>),
        Item(MODE, <<"i", "d", "l", "e">>)>>,
      <<Item(NAME, CPU), Item(JOB, NODE), Item(INSTANCE_, <<"a">>)>>,
      <<Item(NAME, <<"x">>), Item(JOB, <<"j">>), Item(<<"a">>, <<"2">>),
        Item(<<"b">>, <<"1">>)>> }

LabelInputs ==
    {m \in SeqsUpTo(LabelKeys \X LabelValues, MaxLabels) : DistinctKeys(m)}
    \cup LabelExamples

NotLabelled == <<"?">>

InitLabel ==
    /\ MainInit
    /\ pr_in = <<>>
    /\ pr_out = NotCalled
    /\ ml_in \in LabelInputs
    /\ ml_out = NotLabelled

CallMetricLabel ==
    /\ ml_out = NotLabelled
    /\ ml_out' = metric_label(ml_in)
    /\ UNCHANGED <<pc, args, queryVars, netVars, resp, results, chartVars,
                   vresp, stderr, fileVars, exit_code, envVars, pr_in, pr_out,
                   ml_in>>

NextLabel == CallMetricLabel

SpecLabel == InitLabel /\ [][NextLabel]_vars

----------------------------------------------------------------------------
(* What the specification says, stated without the model's operators *)

DecimalValue == ("0" :> 0) @@ ("1" :> 1) @@ ("2" :> 2) @@ ("3" :> 3) @@ ("4" :> 4)
                @@ ("5" :> 5) @@ ("6" :> 6) @@ ("7" :> 7) @@ ("8" :> 8)
                @@ ("9" :> 9) @@ ("U+0663" :> 3)

UnitSeconds == ("s" :> 1) @@ ("m" :> 60) @@ ("h" :> 3600) @@ ("d" :> 86400)
               @@ ("w" :> 604800)

\* One or more decimal digits followed by exactly one unit letter.
WellFormedRange(t) ==
    /\ Len(t) >= 2
    /\ \A i \in 1..(Len(t) - 1) : t[i] \in DOMAIN DecimalValue
    /\ t[Len(t)] \in DOMAIN UnitSeconds

RECURSIVE Pow10(_)
Pow10(n) == IF n = 0 THEN 1 ELSE 10 * Pow10(n - 1)

\* The number n written by the first k characters of t, by place value.
RECURSIVE PlaceValue(_, _)
PlaceValue(t, k) ==
    IF k = 0 THEN 0
    ELSE PlaceValue(t, k - 1) + DecimalValue[t[k]] * Pow10(Len(t) - 1 - k)

RangeSeconds(t) == PlaceValue(t, Len(t) - 1) * UnitSeconds[t[Len(t)]]

Last(q) == q[Len(q)]

Printed(tag) == \E i \in 1..Len(stderr) : stderr[i].tag = tag

Crashed == Printed("Traceback")

Sent(site) == {i \in 1..Len(sent) : sent[i].site = site}

\* The primary GET completed with status "success" and a non-empty result.
PrimarySucceeded ==
    /\ resp.transport = "ok"
    /\ resp.body.json = "object"
    /\ resp.body.status = Some("success")
    /\ resp.body.data /= None
    /\ resp.body.data[1].result /= None
    /\ resp.body.data[1].result[1] /= <<>>

MarkerAnswered == vresp.transport /= "none"

\* A marker result entry with a missing or malformed field.
BadEntry(e) ==
    \/ e.values = None
    \/ e.metric = None
    \/ \E i \in 1..Len(e.values[1]) :
          e.values[1][i].shape /= "number" \/ e.values[1][i].ts > MaxDatetimeTs

\* The marker query failed: transport error, timeout, non-2xx status,
\* malformed body, status other than "success", missing data.result, or a
\* bad result entry.
MarkerFailed ==
    \/ vresp.transport /= "ok"
    \/ vresp.body.json /= "object"
    \/ vresp.body.status /= Some("success")
    \/ vresp.body.data = None
    \/ vresp.body.data[1].result = None
    \/ \E i \in 1..Len(vresp.body.data[1].result[1]) :
          BadEntry(vresp.body.data[1].result[1][i])

----------------------------------------------------------------------------
(* C1 *)

\* C1: when the marker query was issued and failed in any way, the run is
\* not aborted: the warning is printed, no marker line is drawn, the run
\* goes on to write the image and, the write succeeding, exits 0.
C1_MarkerFailureDegrades ==
    (MarkerAnswered /\ MarkerFailed) =>
        /\ ~Crashed
        /\ Printed("Warning: could not fetch vlines query")
        /\ vlines = <<>>
        /\ pc = "exited" => (savefig_calls = 1 /\ (written => exit_code = 0))

----------------------------------------------------------------------------
(* C2 *)

InvalidRange == args /= NoArgs /\ ~WellFormedRange(args.range_str)
PrimaryTransportFailure == resp.transport \in {"ConnectionError", "Timeout", "HTTPError"}
PrimaryStatusNotSuccess ==
    /\ resp.transport = "ok"
    /\ resp.body.json = "object"
    /\ resp.body.status /= Some("success")
PrimaryEmptyResult ==
    /\ resp.transport = "ok"
    /\ resp.body.json = "object"
    /\ resp.body.status = Some("success")
    /\ resp.body.data /= None
    /\ resp.body.data[1].result = Some(<<>>)
WriteFailure == savefig_calls > 0 /\ ~written

FatalCondition ==
    \/ InvalidRange
    \/ PrimaryTransportFailure
    \/ PrimaryStatusNotSuccess
    \/ PrimaryEmptyResult
    \/ WriteFailure

\* C2 as stated: in every run of main the exit status is 0 exactly when the
\* image was written, and it is non-zero on each fatal condition.
C2_ExitZeroIffWritten ==
    pc = "exited" =>
        /\ (exit_code = 0) <=> written
        /\ FatalCondition => exit_code /= 0

\* C2 amended: in every run of main the exit status is 0 exactly when the
\* image was written or parse_args itself ended the run after printing the
\* version or the help text; it is non-zero on each fatal condition.
C2_ExitZeroIffWrittenOrInfo ==
    pc = "exited" =>
        /\ (exit_code = 0) <=> (written \/ stdout /= <<>>)
        /\ stdout /= <<>> => ~written
        /\ FatalCondition => exit_code /= 0

C2_Witness ==
    /\ pc = "exited"
    /\ WriteFailure
    /\ exit_code = 1
    /\ closes = 1

----------------------------------------------------------------------------
(* C3 *)

NothingRendered ==
    /\ exit_code /= 0
    /\ fig = "none"
    /\ Sent("marker") = {}
    /\ savefig_calls = 0
    /\ ~written

\* C3: a primary response whose status is not "success" ends the run with a
\* diagnostic holding the response's error field, or "unknown" when there is
\* none; status "success" with an empty result ends it with a diagnostic
\* naming the --query string.  Either way no figure is created, no marker
\* query is issued and no file is written.
C3_PrimaryErrorAndNoData ==
    /\ (pc /= "decode" /\ PrimaryStatusNotSuccess) =>
          /\ pc = "exited"
          /\ Last(stderr).tag = "Prometheus error"
          /\ Last(stderr).detail =
                (IF resp.body.error = None THEN "unknown" ELSE resp.body.error[1])
          /\ NothingRendered
    /\ (pc /= "decode" /\ PrimaryEmptyResult) =>
          /\ pc = "exited"
          /\ Last(stderr).tag = "No data returned for query"
          /\ Last(stderr).detail = args.query
          /\ NothingRendered

C3_Witness ==
    /\ pc = "exited"
    /\ PrimaryStatusNotSuccess
    /\ resp.body.error = Some("bad query")
    /\ Last(stderr).detail = "bad query"

----------------------------------------------------------------------------
(* C4 *)

\* C4: parse_range returns n * multiplier(u) for every string of one or more
\* decimal digits n followed by exactly one unit letter u, and exits with a
\* non-zero status, returning nothing, for every other string.
C4_ParseRange ==
    pr_out /= NotCalled =>
        /\ WellFormedRange(pr_in) =>
              pr_out.returned /\ pr_out.value = RangeSeconds(pr_in)
        /\ ~WellFormedRange(pr_in) => ~pr_out.returned /\ pr_out.status > 0
        /\ pr_in = <<"2", "4", "h">> => pr_out.value = 86400
        /\ pr_in = <<"7", "d">> => pr_out.value = 604800
        /\ pr_in = <<"3", "0", "m">> => pr_out.value = 1800
        /\ pr_in \in {<<"a", "b", "c">>, <<"2", "4">>, <<"1", ".", "5", "h">>,
                      <<"-", "5", "h">>} => ~pr_out.returned

C4_Witness ==
    /\ pr_in = <<"3", "0", "m">>
    /\ pr_out.returned
    /\ pr_out.value = 1800

----------------------------------------------------------------------------
(* C5 *)

Reserved == {NAME, JOB, INSTANCE_}

\* a < b in lexicographic order of code points.
LexLess(a, b) ==
    \E i \in 1..(Len(b)) :
        /\ \A j \in 1..(i - 1) : j <= Len(a) /\ a[j] = b[j]
        /\ i > Len(a) \/ ord[a[i]] < ord[b[i]]

RECURSIVE Concat(_)
Concat(pieces) == IF pieces = <<>> THEN <<>> ELSE pieces[1] \o Concat(Tail(pieces))

\* The label of the items of m at the indices order[1], order[2], ...
Rendering(m, order) ==
    Concat([i \in 1..Len(order) |->
               (IF i > 1 THEN <<",", " ">> ELSE <<>>)
               \o m[order[i]][1] \o <<"=">> \o m[order[i]][2]])

Kept(m) == {i \in 1..Len(m) : m[i][1] \notin Reserved}

\* C5: metric_label renders every key other than __name__, job and instance
\* as key=value, in lexicographic order of the keys whatever the input
\* order, joined with ", "; with no such key it returns the value of
\* __name__ if present and "value" otherwise.
C5_MetricLabel ==
    ml_out /= NotLabelled =>
        IF Kept(ml_in) = {}
        THEN IF \E i \in 1..Len(ml_in) : ml_in[i][1] = NAME
             THEN \E i \in 1..Len(ml_in) : ml_in[i][1] = NAME /\ ml_out = ml_in[i][2]
             ELSE ml_out = <<"v", "a", "l", "u", "e">>
        ELSE \E order \in [1..Cardinality(Kept(ml_in)) -> Kept(ml_in)] :
                /\ \A i, j \in DOMAIN order :
                      i < j => LexLess(ml_in[order[i]][1], ml_in[order[j]][1])
                /\ ml_out = Rendering(ml_in, order)

C5_Witness ==
    /\ ml_in = <<Item(<<"b">>, <<"1">>), Item(NAME, <<"2">>), Item(<<"a">>, <<"2">>)>>
    /\ ml_out = <<"a", "=", "2", ",", " ", "b", "=", "1">>

----------------------------------------------------------------------------
(* C6 *)

Decorated == date_fmt /= ""

\* C6: the tick format is HH:MM exactly when the range is at most 86400
\* seconds and MM-DD otherwise; the legend is drawn exactly when the primary
\* result holds more than one series; the title exactly when --title is not
\* empty.
C6_FormatLegendTitle ==
    Decorated =>
        /\ date_fmt = (IF RangeSeconds(args.range_str) <= 86400
                       THEN "%H:%M" ELSE "%m-%d")
        /\ legend_drawn <=> Len(resp.body.data[1].result[1]) > 1
        /\ title_drawn <=> args.title /= <<>>

C6_Witness ==
    /\ Decorated
    /\ RangeSeconds(args.range_str) = 86400
    /\ date_fmt = "%H:%M"
    /\ Len(resp.body.data[1].result[1]) = 1
    /\ ~legend_drawn
    /\ vlines /= <<>>
    /\ title_drawn

----------------------------------------------------------------------------
(* C7 *)

C7_Requests ==
    /\ Cardinality(Sent("primary")) <= 1
    /\ Cardinality(Sent("marker")) <= 1
    /\ Cardinality(inflight) <= 1
    /\ \A i \in Sent("marker") :
          /\ args.vlines_query /= None
          /\ args.vlines_query[1] /= <<>>
          /\ PrimarySucceeded
          /\ \E j \in Sent("primary") : j < i
          /\ Len(plotted) = Len(resp.body.data[1].result[1])

\* C7: at most one GET per query; the marker GET is sent only when
\* --vlines-query is configured and the primary GET has completed with
\* status "success" and a non-empty result; the requests never overlap; and
\* the marker query's outcome leaves the plotted primary series unchanged.
C7_SequentialNoRetry ==
    /\ []C7_Requests
    /\ [][pc = "marker_wait" => (plotted' = plotted /\ results' = results)]_vars

C7_Witness ==
    /\ Cardinality(Sent("primary")) = 1
    /\ Cardinality(Sent("marker")) = 1
    /\ MarkerAnswered
    /\ MarkerFailed
    /\ Len(plotted) = 2

----------------------------------------------------------------------------
(* C8 *)

WindowSet == pc \notin {"parse_args", "parse_range"} /\ args /= NoArgs
             /\ WellFormedRange(args.range_str)

AutoStepValue == max(1, RangeSeconds(args.range_str) \div 300)

WindowAndRequests ==
    /\ end = now
    /\ start = end - RangeSeconds(args.range_str)
    /\ \A i \in 1..Len(sent) :
          sent[i].start = start /\ sent[i].end = end /\ sent[i].step = step

\* C8 as stated: the step is the user-supplied --step whenever one is given,
\* and max(1, range_seconds/300) otherwise.
C8_StepGivenOrAuto ==
    WindowSet =>
        /\ WindowAndRequests
        /\ args.step /= None => step = args.step[1]
        /\ args.step = None =>
              (int(step) = AutoStepValue /\ step = str(AutoStepValue))

\* C8 amended: end = now and start = end - parse_range(range); the step is
\* the user-supplied --step when a non-empty one is given, and otherwise
\* (no --step, or an empty one) max(1, range_seconds // 300), which is at
\* least 1; both queries are sent with the same start, end and step.
C8_StepNonEmptyOrAuto ==
    WindowSet =>
        /\ WindowAndRequests
        /\ (args.step /= None /\ args.step[1] /= <<>>) => step = args.step[1]
        /\ (args.step = None \/ args.step = Some(<<>>)) =>
              /\ int(step) = AutoStepValue
              /\ int(step) >= 1
              /\ step = str(AutoStepValue)

C8_Witness ==
    /\ Len(sent) = 2
    /\ args.range_str = <<"0", "s">>
    /\ args.step = None
    /\ sent[2].step = <<"1">>
    /\ sent[1].start = sent[1].end

----------------------------------------------------------------------------
(* C9 *)

\* C9: a figure, once created, is closed exactly once before the process
\* ends, whether or not the write succeeded, and never before the write
\* attempt.
C9_FigureReleasedOnce ==
    /\ (pc = "exited" /\ fig /= "none") => (fig = "closed" /\ closes = 1)
    /\ closes > 0 => savefig_calls > 0

----------------------------------------------------------------------------
(* C10 *)

MarkerResult == vresp.body.data[1].result[1]

\* The first timestamps of the marker series that have a point, in response
\* order.
FirstTimestamps ==
    LET withPoint == SelectSeq(MarkerResult, LAMBDA e : e.values[1] /= <<>>)
    IN  [i \in 1..Len(withPoint) |-> withPoint[i].values[1][1].ts]

SamePlaces(a, b) ==
    /\ Len(a) = Len(b)
    /\ \E f \in [1..Len(a) -> 1..Len(a)] :
          /\ \A i, j \in 1..Len(a) : i /= j => f[i] /= f[j]
          /\ \A i \in 1..Len(a) : a[i] = b[f[i]]

\* C10: when the marker query succeeds, one vertical line is drawn per marker
\* series that has a point, at its first point's timestamp, in ascending
\* order of timestamp whatever the order of the response; with no marker
\* query configured no vertical line is drawn.
C10_MarkerLines ==
    /\ (MarkerAnswered /\ ~MarkerFailed) =>
          /\ SamePlaces(vlines, FirstTimestamps)
          /\ \A i, j \in 1..Len(vlines) : i < j => vlines[i] <= vlines[j]
    /\ (args.vlines_query = None \/ Sent("marker") = {}) => vlines = <<>>

C10_Witness ==
    /\ MarkerAnswered
    /\ ~MarkerFailed
    /\ FirstTimestamps = <<1699995000, 1699992000>>
    /\ vlines = <<1699992000, 1699995000>>

====
